---------------------------- MODULE Spec2Model ----------------------------
(***************************************************************************)
(* Hash ring (consistent hashing) with virtual replicas and adjacency      *)
(* repair: the class HashRing<T, H> of src/unnamed/part_002, lines 48-780. *)
(* Beside it run the ring without repair of src/unnamed/part_001 (tree*,   *)
(* treeRing) and the sorted-array ring of src/src/hash-ring.ts (array*,    *)
(* arrayRing), each given the same constructor arguments and calls, and    *)
(* the sorted-array ring with a comparator of src/unnamed/part_002, lines   *)
(* 801-926 (sorted*, sortedRing).                                          *)
(*                                                                         *)
(* Digests are the numbers 0 .. HashSpace-1 under <; the ring is built     *)
(* without a sortFn, so the BST compares with localeCompare, a total order *)
(* on the digests.  A virtual key string                                   *)
(*     "<nodeStr>:<i>[:spread<f>](_rotate<a>)*"                            *)
(* is the record [node, idx, spread, rot]; spread = 0 stands for a key     *)
(* without the ":spread<f>" part.  A lookup key "key<n>" is the record     *)
(* [lookup |-> n].                                                         *)
(***************************************************************************)
EXTENDS Integers, Sequences, FiniteSets, TLC

\* ------------------------------------------------------------------ bounds
MaxOps == 2          \* addNode/removeNode calls per behaviour
MaxReplicas == 3     \* the constructor's replicas argument ranges over 1..MaxReplicas
HashSpace == 11      \* the digest function's range is 0 .. HashSpace-1

\* ------------------------------------------------------------- node values
\* A node value T is <<name, instance>>; two instances of "A" are two
\* distinct values with the same node key.
NodeValues == { <<"A", 1>>, <<"A", 2>>, <<"B", 1>>, <<"C", 1>> }

\* The default nodeToString on a node object: its toString().
nodeToString(node) == node[1]

NoNode == <<"undefined", 0>>   \* JavaScript's undefined, where a T is expected
NoDigest == -1                 \* an absent TreeNode, where a digest is expected
Digests == 0 .. (HashSpace - 1)
LookupKeys == { [lookup |-> n] : n \in Digests }


\* ------------------------------------------------------- digest functions
\* The constructor's hashFn argument is any deterministic function from
\* strings to digests.  The functions tried are affine in the parts of the
\* key, one per parameter record: n weighs the node key, i the replica
\* index, f the spread factor, r the rotation attempt, c is an offset.
\* r = 0 is a digest function that does not read the rotation suffix (one
\* that hashes a prefix of the key only).
HashFns == <<
    [n |-> 2, i |-> 3, f |-> 5, r |-> 1, c |-> 0],
    [n |-> 2, i |-> 1, f |-> 3, r |-> 4, c |-> 1],
    [n |-> 3, i |-> 1, f |-> 2, r |-> 0, c |-> 0],
    [n |-> 3, i |-> 0, f |-> 1, r |-> 3, c |-> 2] >>

nameCode(name) ==
    CASE name = "A" -> 1
      [] name = "B" -> 2
      [] name = "C" -> 3
      [] OTHER -> 0

RECURSIVE rotHash(_, _, _)
\* The digest of a key whose base part hashes to h and whose rotation
\* suffixes are rot, read left to right.
rotHash(p, h, rot) ==
    IF rot = <<>> THEN h
    ELSE rotHash(p, (h + p.r * Head(rot) + p.r) % HashSpace, Tail(rot))

\* hashFn(key) of the ring built with digest function number seed.
hashFn(seed, key) ==
    LET p == HashFns[seed] IN
    IF "lookup" \in DOMAIN key
    THEN (key.lookup + p.c) % HashSpace
    ELSE rotHash(p,
                 (nameCode(key.node) * p.n + key.idx * p.i
                    + key.spread * p.f + p.c) % HashSpace,
                 key.rot)

\* `${nodeStr}:${i}` and `${nodeStr}:${i}:spread${spreadFactor}`
virtualNodeKey(nodeStr, i, spreadFactor) ==
    [node |-> nodeStr, idx |-> i, spread |-> spreadFactor, rot |-> <<>>]

\* `${oldVirtualKey}_rotate${rotationAttempt}`
rotateKey(oldVirtualKey, rotationAttempt) ==
    [oldVirtualKey EXCEPT !.rot = Append(@, rotationAttempt)]

\* virtualKeyMap.get(d) || '' on a digest the ledger does not hold
EmptyKey == [node |-> "", idx |-> 0, spread |-> 0, rot |-> <<>>]

\* --------------------------------------------------- binary search tree
\* A TreeNode is <<value, left, right>>; an absent one is <<>>.
Nil == <<>>
TreeNode(value, left, right) == <<value, left, right>>

RECURSIVE insertNode(_, _)
insertNode(node, value) ==
    IF node = Nil THEN TreeNode(value, Nil, Nil)
    ELSE IF value < node[1]
         THEN TreeNode(node[1], insertNode(node[2], value), node[3])
         ELSE TreeNode(node[1], node[2], insertNode(node[3], value))

RECURSIVE minNode(_)
minNode(node) == IF node[2] # Nil THEN minNode(node[2]) ELSE node

RECURSIVE deleteNode(_, _)
deleteNode(node, value) ==
    IF node = Nil THEN Nil
    ELSE IF value < node[1]
         THEN TreeNode(node[1], deleteNode(node[2], value), node[3])
    ELSE IF value > node[1]
         THEN TreeNode(node[1], node[2], deleteNode(node[3], value))
    ELSE IF node[2] = Nil THEN node[3]
    ELSE IF node[3] = Nil THEN node[2]
    ELSE LET successor == minNode(node[3])
         IN  TreeNode(successor[1], node[2], deleteNode(node[3], successor[1]))

RECURSIVE findSuccessorKeepsCandidate(_, _, _)
\* A faulty findSuccessor: descending left it does not record the node it
\* leaves as the best successor so far.
findSuccessorKeepsCandidate(node, target, successor) ==
    IF node = Nil THEN successor
    ELSE IF node[1] = target THEN node[1]
    ELSE IF node[1] > target
         THEN findSuccessorKeepsCandidate(node[2], target, successor)
         ELSE findSuccessorKeepsCandidate(node[3], target, successor)

RECURSIVE findSuccessor(_, _, _)
\* The value of the TreeNode the code returns, NoDigest for undefined.
findSuccessor(node, target, successor) ==
    IF node = Nil THEN successor
    ELSE IF node[1] = target THEN node[1]
    ELSE IF node[1] > target
         THEN findSuccessor(node[2], target, node[1])
         ELSE findSuccessor(node[3], target, successor)

RECURSIVE inOrder(_)
inOrder(n) ==
    IF n = Nil THEN <<>>
    ELSE inOrder(n[2]) \o <<n[1]>> \o inOrder(n[3])

getSortedDigests(root) == inOrder(root)

\* ------------------------------------------------------------ Map<K, V>
\* A JavaScript Map is the sequence of its entries <<key, value>> in
\* insertion order: set on a present key keeps its place, delete removes it.
mapHas(m, k) == \E j \in 1 .. Len(m) : m[j][1] = k
mapIndex(m, k) == CHOOSE j \in 1 .. Len(m) : m[j][1] = k
mapGet(m, k, undefined) == IF mapHas(m, k) THEN m[mapIndex(m, k)][2] ELSE undefined
mapSet(m, k, v) ==
    IF mapHas(m, k) THEN [m EXCEPT ![mapIndex(m, k)] = <<k, v>>]
    ELSE Append(m, <<k, v>>)
mapDelete(m, k) == SelectSeq(m, LAMBDA e : e[1] # k)
mapKeys(m) == { m[j][1] : j \in 1 .. Len(m) }
mapSize(m) == Len(m)

\* -------------------------------------------------------------- the ring
\* The mutable fields of a HashRing: root, nodesMap (digest -> node) and
\* virtualKeyMap (digest -> virtual key), both Maps.  returned = FALSE
\* marks a call that is still inside the rotation do-while and never
\* leaves it.
RingOf(root, nodesMap, virtualKeyMap, returned) ==
    [root |-> root, nodesMap |-> nodesMap, virtualKeyMap |-> virtualKeyMap,
     returned |-> returned]

EmptyRing == RingOf(Nil, <<>>, <<>>, TRUE)

ledgerGet(ring, digest) == mapGet(ring.virtualKeyMap, digest, EmptyKey)

\* The three statements that bind a digest: insertNode, nodesMap.set,
\* virtualKeyMap.set.
bindDigest(ring, digest, node, key) ==
    [ring EXCEPT !.root = insertNode(@, digest),
                 !.nodesMap = mapSet(@, digest, node),
                 !.virtualKeyMap = mapSet(@, digest, key)]

\* The three statements that drop a digest: deleteNode, nodesMap.delete,
\* virtualKeyMap.delete.
dropDigest(ring, digest) ==
    [ring EXCEPT !.root = deleteNode(@, digest),
                 !.nodesMap = mapDelete(@, digest),
                 !.virtualKeyMap = mapDelete(@, digest)]

\* match(/:([0-9]+)(?::spread|$|_)/) on a virtual key; -1 when no match
replicaIndexOf(key) == IF key = EmptyKey THEN -1 ELSE key.idx

getOrderedNodes(ring) ==
    LET sortedDigests == getSortedDigests(ring.root)
        bound == SelectSeq(sortedDigests, LAMBDA d : mapHas(ring.nodesMap, d))
    IN  [j \in 1 .. Len(bound) |->
            [position |-> bound[j],
             node |-> mapGet(ring.nodesMap, bound[j], NoNode),
             replicaIndex |-> replicaIndexOf(ledgerGet(ring, bound[j]))]]

\* Indices are the code's, counted from 0; At0 reads a sequence at one.
At0(seq, i) == seq[i + 1]

\* A faulty findAdjacentReplicas that does not compare the last position
\* with the first.
findAdjacentReplicasNoWrap(ring) ==
    LET orderedNodes == getOrderedNodes(ring)
        n == Len(orderedNodes)
        same(i) == /\ i + 1 < n
                   /\ nodeToString(At0(orderedNodes, i).node)
                        = nodeToString(At0(orderedNodes, (i + 1) % n).node)
        hits == IF n < 2 THEN <<>>
                ELSE SelectSeq([j \in 1 .. n |-> j - 1], same)
    IN  [j \in 1 .. Len(hits) |->
            [node |-> At0(orderedNodes, hits[j]).node,
             positions |-> <<At0(orderedNodes, hits[j]).position,
                             At0(orderedNodes, (hits[j] + 1) % n).position>>,
             indices |-> <<hits[j], (hits[j] + 1) % n>>]]

findAdjacentReplicas(ring) ==
    LET orderedNodes == getOrderedNodes(ring)
        n == Len(orderedNodes)
        same(i) == nodeToString(At0(orderedNodes, i).node)
                     = nodeToString(At0(orderedNodes, (i + 1) % n).node)
        hits == IF n < 2 THEN <<>>
                ELSE SelectSeq([j \in 1 .. n |-> j - 1], same)
    IN  [j \in 1 .. Len(hits) |->
            [node |-> At0(orderedNodes, hits[j]).node,
             positions |-> <<At0(orderedNodes, hits[j]).position,
                             At0(orderedNodes, (hits[j] + 1) % n).position>>,
             indices |-> <<hits[j], (hits[j] + 1) % n>>]]

getUniqueNodeCount(ring) ==
    Cardinality({ nodeToString(ring.nodesMap[j][2]) : j \in 1 .. Len(ring.nodesMap) })

RECURSIVE sortByDigest(_)
\* Array.prototype.sort by digest: stable, entries <<digest, node>>.
sortByDigest(entries) ==
    IF entries = <<>> THEN <<>>
    ELSE LET rest == sortByDigest(SubSeq(entries, 1, Len(entries) - 1))
             e == entries[Len(entries)]
             le == SelectSeq(rest, LAMBDA x : x[1] <= e[1])
             gt == SelectSeq(rest, LAMBDA x : x[1] > e[1])
         IN  le \o <<e>> \o gt

checkIfPositionCreatesAdjacency(ring, node, position) ==
    LET positions == sortByDigest(Append(ring.nodesMap, <<position, node>>))
        n == Len(positions)
        newPosIndex == (CHOOSE j \in 1 .. n :
                          /\ positions[j][1] = position
                          /\ \A k \in 1 .. (j - 1) : positions[k][1] # position) - 1
        nodeStr == nodeToString(node)
        prevIndex == (newPosIndex - 1 + n) % n
        nextIndex == (newPosIndex + 1) % n
    IN  \/ nodeToString(At0(positions, prevIndex)[2]) = nodeStr
        \/ nodeToString(At0(positions, nextIndex)[2]) = nodeStr

\* The for loop of fixAdjacentReplicas: the first index, other than the
\* pair's two, whose neighbours are both not owned by the second replica's
\* node; -1 when there is none.
findTargetIndex(orderedNodes, firstIndex, secondIndex) ==
    LET n == Len(orderedNodes)
        currentNodeStr == nodeToString(At0(orderedNodes, secondIndex).node)
        fits(i) ==
            /\ i # firstIndex
            /\ i # secondIndex
            /\ nodeToString(At0(orderedNodes, (i - 1 + n) % n).node) # currentNodeStr
            /\ nodeToString(At0(orderedNodes, (i + 1) % n).node) # currentNodeStr
        cands == { i \in 0 .. (n - 1) : fits(i) }
    IN  IF cands = {} THEN -1
        ELSE CHOOSE i \in cands : \A k \in cands : i <= k

\* The do-while of fixAdjacentReplicas on the ring without the old digest:
\* the first rotationAttempt whose digest is unused and creates no
\* adjacency.  The digest of `${oldVirtualKey}_rotate${a}` depends on a
\* modulo HashSpace only, so when no attempt in 1 .. HashSpace is accepted
\* none ever is and the loop does not end: 0 stands for that.
rotationAttemptFor(seed, ring, node, oldVirtualKey) ==
    LET accepted(a) ==
            LET newDigest == hashFn(seed, rotateKey(oldVirtualKey, a))
            IN  /\ ~mapHas(ring.nodesMap, newDigest)
                /\ ~checkIfPositionCreatesAdjacency(ring, node, newDigest)
        found == { a \in 1 .. HashSpace : accepted(a) }
    IN  IF found = {} THEN 0
        ELSE CHOOSE a \in found : \A b \in found : a <= b

RECURSIVE repairLoop(_, _, _)

\* A faulty re-insertion: it binds the rotated key and returns without
\* looking for adjacent replicas again.
reinsertRotatedOnce(seed, removed, seen, node, oldVirtualKey, attempt) ==
    IF attempt = 0 THEN [removed EXCEPT !.returned = FALSE]
    ELSE bindDigest(removed, hashFn(seed, rotateKey(oldVirtualKey, attempt)),
                    node, rotateKey(oldVirtualKey, attempt))

\* A faulty re-insertion: the ledger entry of the new digest keeps the old
\* virtual key, without the rotation suffix.
reinsertRotatedKeepingKey(seed, removed, seen, node, oldVirtualKey, attempt) ==
    IF attempt = 0 THEN [removed EXCEPT !.returned = FALSE]
    ELSE repairLoop(seed,
                    bindDigest(removed,
                               hashFn(seed, rotateKey(oldVirtualKey, attempt)),
                               node, oldVirtualKey),
                    seen)

\* The end of one iteration: the replica goes back in under the digest of
\* the accepted attempt, or the do-while never ends (attempt = 0).
reinsertRotated(seed, removed, seen, node, oldVirtualKey, attempt) ==
    IF attempt = 0 THEN [removed EXCEPT !.returned = FALSE]
    ELSE repairLoop(seed,
                    bindDigest(removed,
                               hashFn(seed, rotateKey(oldVirtualKey, attempt)),
                               node, rotateKey(oldVirtualKey, attempt)),
                    seen)

\* The relocation of secondNode: its old digest leaves the three
\* structures, then the rotation search runs on what is left.
relocateSecond(seed, ring, seen, secondNode, oldVirtualKey) ==
    reinsertRotated(seed, dropDigest(ring, secondNode.position), seen,
                    secondNode.node, oldVirtualKey,
                    rotationAttemptFor(seed, dropDigest(ring, secondNode.position),
                                       secondNode.node, oldVirtualKey))

\* A faulty iteration that relocates the second replica without looking
\* for a target index.
repairPairWithoutTarget(seed, ring, seen, pair, orderedNodes) ==
    relocateSecond(seed, ring, seen, At0(orderedNodes, pair.indices[2]),
                   ledgerGet(ring, At0(orderedNodes, pair.indices[2]).position))

\* One iteration of the while loop, on the first adjacent pair.
repairPair(seed, ring, seen, pair, orderedNodes) ==
    IF findTargetIndex(orderedNodes, pair.indices[1], pair.indices[2]) = -1
    THEN ring
    ELSE relocateSecond(seed, ring, seen, At0(orderedNodes, pair.indices[2]),
                        ledgerGet(ring, At0(orderedNodes, pair.indices[2]).position))

\* The while loop of fixAdjacentReplicas.  What an iteration does depends
\* on root and nodesMap only: the digest of a rotated key is a function of
\* the old key's digest and the attempt (rotHash), and the old key's digest
\* is the digest it is stored under.  seen holds the <<root, nodesMap>> at
\* the head of the earlier iterations of this call; meeting one of them
\* again, the loop repeats those iterations for ever (each time with a
\* longer virtual key) and the call does not return.
repairLoop(seed, ring, seen) ==
    IF findAdjacentReplicas(ring) = <<>> THEN ring
    ELSE IF <<ring.root, ring.nodesMap>> \in seen
         THEN [ring EXCEPT !.returned = FALSE]
    ELSE repairPair(seed, ring, seen \cup { <<ring.root, ring.nodesMap>> },
                    findAdjacentReplicas(ring)[1], getOrderedNodes(ring))

\* A faulty repair pass that ends after its first relocation, without
\* looking for adjacent replicas again.
fixAdjacentReplicasOneRound(seed, ring) ==
    IF getUniqueNodeCount(ring) < 2 \/ findAdjacentReplicas(ring) = <<>> THEN ring
    ELSE IF findTargetIndex(getOrderedNodes(ring),
                            findAdjacentReplicas(ring)[1].indices[1],
                            findAdjacentReplicas(ring)[1].indices[2]) = -1
         THEN ring
    ELSE reinsertRotatedOnce(seed,
             dropDigest(ring, At0(getOrderedNodes(ring),
                                  findAdjacentReplicas(ring)[1].indices[2]).position),
             {},
             At0(getOrderedNodes(ring), findAdjacentReplicas(ring)[1].indices[2]).node,
             ledgerGet(ring, At0(getOrderedNodes(ring),
                                 findAdjacentReplicas(ring)[1].indices[2]).position),
             rotationAttemptFor(seed,
                 dropDigest(ring, At0(getOrderedNodes(ring),
                                      findAdjacentReplicas(ring)[1].indices[2]).position),
                 At0(getOrderedNodes(ring), findAdjacentReplicas(ring)[1].indices[2]).node,
                 ledgerGet(ring, At0(getOrderedNodes(ring),
                                     findAdjacentReplicas(ring)[1].indices[2]).position)))

\* A faulty repair pass that, on a ring of fewer than 2 physical nodes,
\* moves the second replica of the first adjacent pair to the digest of its
\* key's first rotation.
fixAdjacentReplicasOnLoneNode(seed, ring) ==
    IF getUniqueNodeCount(ring) >= 2 THEN repairLoop(seed, ring, {})
    ELSE IF findAdjacentReplicas(ring) = <<>> THEN ring
    ELSE bindDigest(dropDigest(ring, findAdjacentReplicas(ring)[1].positions[2]),
                    hashFn(seed, rotateKey(ledgerGet(ring,
                               findAdjacentReplicas(ring)[1].positions[2]), 1)),
                    findAdjacentReplicas(ring)[1].node,
                    rotateKey(ledgerGet(ring,
                               findAdjacentReplicas(ring)[1].positions[2]), 1))

fixAdjacentReplicas(seed, ring) ==
    IF getUniqueNodeCount(ring) < 2 THEN ring ELSE repairLoop(seed, ring, {})

\* getNodesCount(): nodesMap.size / replicas, a JavaScript number that need
\* not be whole; <<numerator, denominator>> stands for the quotient.
getNodesCount(ring, replicas) == <<mapSize(ring.nodesMap), replicas>>

\* The quotient q is the whole number n.
IsCount(q, n) == q[1] = n * q[2]

\* Math.floor(i / Math.max(1, getNodesCount())) + 1
spreadFactorOf(ring, replicas, i) ==
    LET q == getNodesCount(ring, replicas)
    IN  (IF q[1] <= q[2] THEN i ELSE (i * q[2]) \div q[1]) + 1

\* The virtual key addNode builds for replica index i on the ring as it is
\* at that iteration.
replicaKey(ring, replicas, node, useSpreadHashing, i) ==
    virtualNodeKey(nodeToString(node), i,
                   IF useSpreadHashing THEN spreadFactorOf(ring, replicas, i) ELSE 0)

RECURSIVE addReplicas(_, _, _, _, _, _)
\* The for loop of addNode from replica index i on.
addReplicas(seed, replicas, ring, node, useSpreadHashing, i) ==
    IF i >= replicas THEN ring
    ELSE addReplicas(seed, replicas,
             bindDigest(ring,
                        hashFn(seed, replicaKey(ring, replicas, node, useSpreadHashing, i)),
                        node,
                        replicaKey(ring, replicas, node, useSpreadHashing, i)),
             node, useSpreadHashing, i + 1)

addNode(seed, replicas, ring, node, useSpreadHashing) ==
    fixAdjacentReplicas(seed,
        addReplicas(seed, replicas, ring, node, useSpreadHashing, 0))

RECURSIVE addReplicasUpTo(_, _, _, _, _, _)
\* The ring at the head of iteration i of addNode's for loop: the replicas
\* of index 0 .. i-1 are bound.
addReplicasUpTo(seed, replicas, ring, node, useSpreadHashing, i) ==
    IF i = 0 THEN ring
    ELSE LET head == addReplicasUpTo(seed, replicas, ring, node, useSpreadHashing, i - 1)
             key == replicaKey(head, replicas, node, useSpreadHashing, i - 1)
         IN  bindDigest(head, hashFn(seed, key), node, key)

\* The ring inside iteration i of addNode's for loop, after insertNode and
\* before nodesMap.set.
InsertedNotBound(seed, replicas, ring, node, useSpreadHashing, i) ==
    LET head == addReplicasUpTo(seed, replicas, ring, node, useSpreadHashing, i)
    IN  [head EXCEPT !.root =
            insertNode(@, hashFn(seed, replicaKey(head, replicas, node,
                                                  useSpreadHashing, i)))]

RECURSIVE dropAll(_, _)
dropAll(ring, digests) ==
    IF digests = <<>> THEN ring
    ELSE dropAll(dropDigest(ring, Head(digests)), Tail(digests))

removeNode(seed, ring, node) ==
    LET nodeStr == nodeToString(node)
        owned == SelectSeq(ring.nodesMap, LAMBDA e : nodeToString(e[2]) = nodeStr)
        digestsToRemove == [j \in 1 .. Len(owned) |-> owned[j][1]]
    IN  fixAdjacentReplicas(seed, dropAll(ring, digestsToRemove))

getNode(seed, ring, key) ==
    IF ring.root = Nil THEN NoNode
    ELSE LET digest == hashFn(seed, key)
             successor == findSuccessor(ring.root, digest, NoDigest)
             target == IF successor # NoDigest THEN successor
                       ELSE minNode(ring.root)[1]
         IN  mapGet(ring.nodesMap, target, NoNode)

RECURSIVE groupByNode(_, _)
\* The loop of getNodeDistribution: a Map<T, string[]> keyed by the node
\* value itself.
groupByNode(orderedNodes, distribution) ==
    IF orderedNodes = <<>> THEN distribution
    ELSE groupByNode(Tail(orderedNodes),
             mapSet(distribution, Head(orderedNodes).node,
                    Append(mapGet(distribution, Head(orderedNodes).node, <<>>),
                           Head(orderedNodes).position)))

getNodeDistribution(ring) == groupByNode(getOrderedNodes(ring), <<>>)

\* validateDistribution(): an issue is <<"adjacent", count>> for the line
\* "Found <count> adjacent replica pairs", <<"pair", nodeStr, p0, p1>> for
\* each pair's line and <<"replicas", nodeStr, count>> for a node whose
\* count is not the expected one.
validateDistribution(ring, replicas) ==
    LET adjacentPairs == findAdjacentReplicas(ring)
        distribution == getNodeDistribution(ring)
        distributionBalance ==
            [j \in 1 .. Len(distribution) |->
                <<distribution[j][1], Len(distribution[j][2])>>]
        pairIssues ==
            IF adjacentPairs = <<>> THEN <<>>
            ELSE << <<"adjacent", Len(adjacentPairs)>> >> \o
                 [j \in 1 .. Len(adjacentPairs) |->
                    <<"pair", nodeToString(adjacentPairs[j].node),
                      adjacentPairs[j].positions[1], adjacentPairs[j].positions[2]>>]
        wrong == SelectSeq(distributionBalance, LAMBDA e : e[2] # replicas)
        countIssues ==
            [j \in 1 .. Len(wrong) |-> <<"replicas", nodeToString(wrong[j][1]), wrong[j][2]>>]
        issues == pairIssues \o countIssues
    IN  [isValid |-> Len(issues) = 0,
         adjacentReplicas |-> Len(adjacentPairs),
         distributionBalance |-> distributionBalance,
         issues |-> issues]

RECURSIVE constructWithDefaultFlag(_, _, _, _, _)
\* A faulty constructor: it seeds with addNode(n), dropping its
\* spreadHashing option.
constructWithDefaultFlag(seed, replicas, ring, nodes, spreadHashing) ==
    IF nodes = <<>> \/ ~ring.returned THEN ring
    ELSE constructWithDefaultFlag(seed, replicas,
             addNode(seed, replicas, ring, Head(nodes), FALSE),
             Tail(nodes), spreadHashing)

RECURSIVE construct(_, _, _, _, _)
\* new HashRing(nodes, replicas, hashFn, spreadHashing): addNode for each
\* initial node in the given order.
construct(seed, replicas, ring, nodes, spreadHashing) ==
    IF nodes = <<>> \/ ~ring.returned THEN ring
    ELSE construct(seed, replicas,
                   addNode(seed, replicas, ring, Head(nodes), spreadHashing),
                   Tail(nodes), spreadHashing)

\* ------------------------------ the tree ring without repair (part_001)
\* The class HashRing<T, H> of src/unnamed/part_001: root and nodesMap, the
\* same tree operations, virtual keys `<nodeStr>:<i>` only, no repair.
TreeRingOf(root, nodesMap) == [root |-> root, nodesMap |-> nodesMap]

EmptyTreeRing == TreeRingOf(Nil, <<>>)

RECURSIVE treeAddReplicas(_, _, _, _, _)
\* The for loop of addNode from replica index i on.
treeAddReplicas(seed, replicas, t, node, i) ==
    IF i >= replicas THEN t
    ELSE treeAddReplicas(seed, replicas,
             TreeRingOf(insertNode(t.root,
                            hashFn(seed, virtualNodeKey(nodeToString(node), i, 0))),
                        mapSet(t.nodesMap,
                               hashFn(seed, virtualNodeKey(nodeToString(node), i, 0)),
                               node)),
             node, i + 1)

treeAddNode(seed, replicas, t, node) == treeAddReplicas(seed, replicas, t, node, 0)

RECURSIVE treeRemoveReplicas(_, _, _, _, _)
\* The for loop of removeNode from replica index i on: the digest of each
\* key `<nodeStr>:<i>` is deleted from the tree and from nodesMap.
treeRemoveReplicas(seed, replicas, t, node, i) ==
    IF i >= replicas THEN t
    ELSE treeRemoveReplicas(seed, replicas,
             TreeRingOf(deleteNode(t.root,
                            hashFn(seed, virtualNodeKey(nodeToString(node), i, 0))),
                        mapDelete(t.nodesMap,
                                  hashFn(seed, virtualNodeKey(nodeToString(node), i, 0)))),
             node, i + 1)

treeRemoveNode(seed, replicas, t, node) == treeRemoveReplicas(seed, replicas, t, node, 0)

treeGetNode(seed, t, key) ==
    IF t.root = Nil THEN NoNode
    ELSE LET digest == hashFn(seed, key)
             successor == findSuccessor(t.root, digest, NoDigest)
             target == IF successor # NoDigest THEN successor
                       ELSE minNode(t.root)[1]
         IN  mapGet(t.nodesMap, target, NoNode)

treeGetNodesCount(t, replicas) == <<mapSize(t.nodesMap), replicas>>

RECURSIVE treeConstruct(_, _, _, _)
\* new HashRing(nodes, replicas, hashFn): addNode for each initial node.
treeConstruct(seed, replicas, t, nodes) ==
    IF nodes = <<>> THEN t
    ELSE treeConstruct(seed, replicas,
                       treeAddNode(seed, replicas, t, Head(nodes)), Tail(nodes))

\* ------------------------------ the sorted-array ring (src/hash-ring.ts)
\* The class HashRing<T> of src/src/hash-ring.ts: the array `ring` of
\* digests, kept sorted, and nodesMap.
ArrayRingOf(ring, nodesMap) == [ring |-> ring, nodesMap |-> nodesMap]

EmptyArrayRing == ArrayRingOf(<<>>, <<>>)

RECURSIVE sortDigests(_)
\* Array.prototype.sort() on the digests.
sortDigests(digests) ==
    IF digests = <<>> THEN <<>>
    ELSE LET rest == sortDigests(SubSeq(digests, 1, Len(digests) - 1))
             d == digests[Len(digests)]
         IN  SelectSeq(rest, LAMBDA x : x <= d) \o <<d>> \o
             SelectSeq(rest, LAMBDA x : x > d)

RECURSIVE arrayAddReplicas(_, _, _, _, _)
\* The for loop of addNode from replica index i on: push and set.
arrayAddReplicas(seed, replicas, a, node, i) ==
    IF i >= replicas THEN a
    ELSE arrayAddReplicas(seed, replicas,
             ArrayRingOf(Append(a.ring,
                             hashFn(seed, virtualNodeKey(nodeToString(node), i, 0))),
                         mapSet(a.nodesMap,
                                hashFn(seed, virtualNodeKey(nodeToString(node), i, 0)),
                                node)),
             node, i + 1)

arrayAddNode(seed, replicas, a, node) ==
    ArrayRingOf(sortDigests(arrayAddReplicas(seed, replicas, a, node, 0).ring),
                arrayAddReplicas(seed, replicas, a, node, 0).nodesMap)

\* ring.indexOf(digest) and ring.splice(idx, 1): the first occurrence goes.
spliceFirst(ring, digest) ==
    IF \E j \in 1 .. Len(ring) : ring[j] = digest
    THEN LET idx == CHOOSE j \in 1 .. Len(ring) :
                        ring[j] = digest /\ \A k \in 1 .. (j - 1) : ring[k] # digest
         IN  SubSeq(ring, 1, idx - 1) \o SubSeq(ring, idx + 1, Len(ring))
    ELSE ring

RECURSIVE arrayRemoveReplicas(_, _, _, _, _)
\* The for loop of removeNode from replica index i on.
arrayRemoveReplicas(seed, replicas, a, node, i) ==
    IF i >= replicas THEN a
    ELSE arrayRemoveReplicas(seed, replicas,
             ArrayRingOf(spliceFirst(a.ring,
                             hashFn(seed, virtualNodeKey(nodeToString(node), i, 0))),
                         mapDelete(a.nodesMap,
                                   hashFn(seed, virtualNodeKey(nodeToString(node), i, 0)))),
             node, i + 1)

arrayRemoveNode(seed, replicas, a, node) == arrayRemoveReplicas(seed, replicas, a, node, 0)

RECURSIVE binarySearch(_, _, _, _)
\* The while loop of binarySearch on 0-based indices lo and hi: the index of
\* target or of its insertion point.
binarySearch(ring, target, lo, hi) ==
    IF lo > hi THEN lo
    ELSE LET mid == (lo + hi) \div 2
         IN  IF At0(ring, mid) = target THEN mid
             ELSE IF At0(ring, mid) < target
                  THEN binarySearch(ring, target, mid + 1, hi)
                  ELSE binarySearch(ring, target, lo, mid - 1)

arrayGetNode(seed, a, key) ==
    IF Len(a.ring) = 0 THEN NoNode
    ELSE LET idx == binarySearch(a.ring, hashFn(seed, key), 0, Len(a.ring) - 1)
         IN  mapGet(a.nodesMap,
                    At0(a.ring, IF idx = Len(a.ring) THEN 0 ELSE idx), NoNode)

arrayGetNodesCount(a, replicas) == <<Len(a.ring), replicas>>

RECURSIVE arrayConstruct(_, _, _, _)
\* new HashRing(nodes, replicas, hashFn): addNode for each initial node.
arrayConstruct(seed, replicas, a, nodes) ==
    IF nodes = <<>> THEN a
    ELSE arrayConstruct(seed, replicas,
                        arrayAddNode(seed, replicas, a, Head(nodes)), Tail(nodes))

\* ------------------------------------------------------------ sorted array
\* with a comparator: the class HashRing<T> of src/unnamed/part_002, lines
\* 801-926, built with a digest function that returns the decimal strings
\* "0" .. "<HashSpace-1>" and with sortFn = (a, b) => Number(a) - Number(b).
\* A digest d is, as everywhere, the string of rank d under the string
\* order <, which the default sort() and binarySearch compare with.

\* The decimal string of n, as its digits.
decimal(n) == IF n < 10 THEN <<n>> ELSE <<n \div 10, n % 10>>

\* s < t on two such strings.
stringLess(s, t) ==
    \/ s[1] < t[1]
    \/ /\ s[1] = t[1]
       /\ \/ Len(s) < Len(t)
          \/ Len(s) = 2 /\ Len(t) = 2 /\ s[2] < t[2]

\* The number whose decimal string has rank d, for each digest d.
numbers ==
    [d \in Digests |->
        CHOOSE n \in Digests :
            Cardinality({ m \in Digests : stringLess(decimal(m), decimal(n)) }) = d]

\* Number(d)
numberOf(d) == numbers[d]

\* sortFn(a, b)
sortFn(a, b) == numberOf(a) - numberOf(b)

RECURSIVE sortWith(_)
\* Array.prototype.sort(sortFn) on the digests.
sortWith(digests) ==
    IF digests = <<>> THEN <<>>
    ELSE LET rest == sortWith(SubSeq(digests, 1, Len(digests) - 1))
             d == digests[Len(digests)]
         IN  SelectSeq(rest, LAMBDA x : sortFn(x, d) <= 0) \o <<d>> \o
             SelectSeq(rest, LAMBDA x : sortFn(x, d) > 0)

\* addNode(node): the for loop is that of the array ring; then
\* ring.sort(sortFn), then ring.sort().
sortedAddNode(seed, replicas, a, node) ==
    ArrayRingOf(sortDigests(sortWith(arrayAddReplicas(seed, replicas, a, node, 0).ring)),
                arrayAddReplicas(seed, replicas, a, node, 0).nodesMap)

\* removeNode(node), getNode(key) and binarySearch(target) are, word for
\* word, those of the array ring.
sortedRemoveNode(seed, replicas, a, node) == arrayRemoveNode(seed, replicas, a, node)

sortedGetNode(seed, a, key) == arrayGetNode(seed, a, key)

RECURSIVE sortedConstruct(_, _, _, _)
\* new HashRing(nodes, replicas, hashFn, sortFn)
sortedConstruct(seed, replicas, a, nodes) ==
    IF nodes = <<>> THEN a
    ELSE sortedConstruct(seed, replicas,
                         sortedAddNode(seed, replicas, a, Head(nodes)), Tail(nodes))

\* ------------------------------------------------------------ ranges
\* Array.prototype.indexOf, counted from 0; -1 when absent.
indexOf(seq, x) ==
    IF \E j \in 1 .. Len(seq) : seq[j] = x
    THEN (CHOOSE j \in 1 .. Len(seq) :
              seq[j] = x /\ \A i \in 1 .. (j - 1) : seq[i] # x) - 1
    ELSE -1

\* The map callback shared by both getRangesForNode: the range that ends at
\* `end`, over the sorted digests `all`.  Reading an empty array gives
\* undefined.
rangeEndingAt(all, end) ==
    LET idx == indexOf(all, end)
    IN  [start |-> IF idx > 0 THEN At0(all, idx - 1)
                   ELSE IF all = <<>> THEN NoDigest
                   ELSE At0(all, Len(all) - 1),
         end |-> end]

\* getRangesForNode(node) of the engine: the digests that nodesMap binds to
\* a node with this nodeToString, sorted, each mapped to its range.
getRangesForNode(ring, node) ==
    LET all == getSortedDigests(ring.root)
        nodeStr == nodeToString(node)
        owned == SelectSeq(ring.nodesMap, LAMBDA e : nodeToString(e[2]) = nodeStr)
        nodeDigests == sortDigests([j \in 1 .. Len(owned) |-> owned[j][1]])
    IN  [j \in 1 .. Len(nodeDigests) |-> rangeEndingAt(all, nodeDigests[j])]

RECURSIVE treeNodeDigests(_, _, _, _, _)
\* The for loop of the plain tree ring's getRangesForNode: the digests of
\* `${nodeStr}:${i}` that nodesMap has.
treeNodeDigests(seed, replicas, t, nodeStr, i) ==
    IF i >= replicas THEN <<>>
    ELSE LET digest == hashFn(seed, virtualNodeKey(nodeStr, i, 0))
         IN  (IF mapHas(t.nodesMap, digest) THEN <<digest>> ELSE <<>>) \o
             treeNodeDigests(seed, replicas, t, nodeStr, i + 1)

\* getRangesForNode(node) of the plain tree ring.
treeGetRangesForNode(seed, replicas, t, node) ==
    LET all == getSortedDigests(t.root)
        nodeDigests == sortDigests(treeNodeDigests(seed, replicas, t, nodeToString(node), 0))
    IN  [j \in 1 .. Len(nodeDigests) |-> rangeEndingAt(all, nodeDigests[j])]

\* getNodeForRange(range).
getNodeForRange(ring, range) == mapGet(ring.nodesMap, range.end, NoNode)

\* A faulty getNodesInRange that treats a wrap-around range as a normal
\* one.
getNodesInRangeNoWrap(ring, start, end) ==
    LET all == getSortedDigests(ring.root)
        inRange(digest) == digest >= start /\ digest <= end
        hits == SelectSeq(all, LAMBDA d : inRange(d) /\ mapHas(ring.nodesMap, d))
        nodes == [j \in 1 .. Len(hits) |-> mapGet(ring.nodesMap, hits[j], NoNode)]
        first == SelectSeq([j \in 1 .. Len(nodes) |-> j],
                           LAMBDA j : \A i \in 1 .. (j - 1) : nodes[i] # nodes[j])
    IN  IF Len(all) = 0 THEN <<>>
        ELSE [j \in 1 .. Len(first) |-> nodes[first[j]]]

\* getNodesInRange(start, end): the Set<T> is kept as the array that
\* Array.from gives, in insertion order, one entry per node value.
getNodesInRange(ring, start, end) ==
    LET all == getSortedDigests(ring.root)
        isWraparound == start > end
        inRange(digest) ==
            IF isWraparound THEN digest >= start \/ digest <= end
            ELSE digest >= start /\ digest <= end
        hits == SelectSeq(all, LAMBDA d : inRange(d) /\ mapHas(ring.nodesMap, d))
        nodes == [j \in 1 .. Len(hits) |-> mapGet(ring.nodesMap, hits[j], NoNode)]
        first == SelectSeq([j \in 1 .. Len(nodes) |-> j],
                           LAMBDA j : \A i \in 1 .. (j - 1) : nodes[i] # nodes[j])
    IN  IF Len(all) = 0 THEN <<>>
        ELSE [j \in 1 .. Len(first) |-> nodes[first[j]]]

\* The public operations that only read the ring.
ReadOps == { "getNode", "getRangesForNode", "getNodeForRange", "getNodesInRange",
             "getNodesCount", "getOrderedNodes", "getNodeDistribution",
             "findAdjacentReplicas", "validateDistribution" }

\* A faulty read: getNode prunes from the tree a digest that the
\* Digest->Node Table does not bind.
afterReadPruning(op, ring) ==
    IF op = "getNode"
       /\ \E j \in 1 .. Len(getSortedDigests(ring.root)) :
             ~mapHas(ring.nodesMap, getSortedDigests(ring.root)[j])
    THEN [ring EXCEPT !.root =
             deleteNode(ring.root,
                 getSortedDigests(ring.root)[
                     CHOOSE j \in 1 .. Len(getSortedDigests(ring.root)) :
                         ~mapHas(ring.nodesMap, getSortedDigests(ring.root)[j])])]
    ELSE ring

\* The ring after a read operation: none of them assigns root, calls
\* insertNode/deleteNode or calls set/delete on nodesMap or virtualKeyMap;
\* what they sort or push to are arrays and maps of their own.
afterRead(op, ring) == ring

\* The initial node lists the rings are constructed with.
InitialNodes == { <<>>,
                  << <<"A", 1>>, <<"B", 1>> >>,
                  << <<"A", 1>>, <<"B", 1>>, <<"C", 1>> >> }

\* ------------------------------------------------------------ the machine
VARIABLES
    root,           \* HashRing.root
    nodesMap,       \* HashRing.nodesMap
    virtualKeyMap,  \* HashRing.virtualKeyMap
    replicas,       \* HashRing.replicas
    hashSeed,       \* which of HashFns HashRing.hashFn is
    returned,       \* the last call has returned to its caller
    lastCall,       \* the last call made on the ring, with its arguments
    before,         \* the ring as it was when the last call was made
    calls,          \* calls made so far
    treeRing,       \* a part_001 HashRing given the same nodes and calls
    treeBefore,     \* treeRing as it was when the last call was made
    arrayRing,      \* a hash-ring.ts HashRing given the same nodes and calls
    arrayBefore,    \* arrayRing as it was when the last call was made
    sortedRing      \* a part_002 sorted-array HashRing with sortFn, same nodes and calls

vars == <<root, nodesMap, virtualKeyMap, replicas, hashSeed, returned,
          lastCall, before, calls, treeRing, treeBefore, arrayRing, arrayBefore,
          sortedRing>>

Ring == RingOf(root, nodesMap, virtualKeyMap, returned)

Becomes(ring) ==
    /\ root' = ring.root
    /\ nodesMap' = ring.nodesMap
    /\ virtualKeyMap' = ring.virtualKeyMap
    /\ returned' = ring.returned

Init ==
    /\ replicas \in 1 .. MaxReplicas
    /\ hashSeed \in 1 .. Len(HashFns)
    /\ \E nodes \in InitialNodes, spreadHashing \in BOOLEAN :
          LET ring == construct(hashSeed, replicas, EmptyRing, nodes, spreadHashing)
          IN  /\ ring.returned
              /\ root = ring.root
              /\ nodesMap = ring.nodesMap
              /\ virtualKeyMap = ring.virtualKeyMap
              /\ returned = ring.returned
              /\ lastCall = [op |-> "new", nodes |-> nodes,
                             useSpreadHashing |-> spreadHashing]
              /\ treeRing = treeConstruct(hashSeed, replicas, EmptyTreeRing, nodes)
              /\ arrayRing = arrayConstruct(hashSeed, replicas, EmptyArrayRing, nodes)
              /\ sortedRing = sortedConstruct(hashSeed, replicas, EmptyArrayRing, nodes)
    /\ before = EmptyRing
    /\ treeBefore = EmptyTreeRing
    /\ arrayBefore = EmptyArrayRing
    /\ calls = 0

AddNode(node, useSpreadHashing) ==
    /\ returned
    /\ calls < MaxOps
    /\ Becomes(addNode(hashSeed, replicas, Ring, node, useSpreadHashing))
    /\ lastCall' = [op |-> "addNode", nodes |-> <<node>>,
                    useSpreadHashing |-> useSpreadHashing]
    /\ before' = Ring
    /\ treeRing' = treeAddNode(hashSeed, replicas, treeRing, node)
    /\ arrayRing' = arrayAddNode(hashSeed, replicas, arrayRing, node)
    /\ sortedRing' = sortedAddNode(hashSeed, replicas, sortedRing, node)
    /\ treeBefore' = treeRing
    /\ arrayBefore' = arrayRing
    /\ calls' = calls + 1
    /\ UNCHANGED <<replicas, hashSeed>>

RemoveNode(node) ==
    /\ returned
    /\ calls < MaxOps
    /\ Becomes(removeNode(hashSeed, Ring, node))
    /\ lastCall' = [op |-> "removeNode", nodes |-> <<node>>,
                    useSpreadHashing |-> FALSE]
    /\ before' = Ring
    /\ treeRing' = treeRemoveNode(hashSeed, replicas, treeRing, node)
    /\ arrayRing' = arrayRemoveNode(hashSeed, replicas, arrayRing, node)
    /\ sortedRing' = sortedRemoveNode(hashSeed, replicas, sortedRing, node)
    /\ treeBefore' = treeRing
    /\ arrayBefore' = arrayRing
    /\ calls' = calls + 1
    /\ UNCHANGED <<replicas, hashSeed>>

\* A call of one of the read operations on the ring.
Read(op) ==
    /\ returned
    /\ calls < MaxOps
    /\ Becomes(afterRead(op, Ring))
    /\ lastCall' = [op |-> op, nodes |-> <<>>, useSpreadHashing |-> FALSE]
    /\ before' = Ring
    /\ treeBefore' = treeRing
    /\ arrayBefore' = arrayRing
    /\ UNCHANGED <<treeRing, arrayRing, sortedRing>>
    /\ calls' = calls + 1
    /\ UNCHANGED <<replicas, hashSeed>>

Next ==
    \/ \E node \in NodeValues, useSpreadHashing \in BOOLEAN :
          AddNode(node, useSpreadHashing)
    \/ \E node \in NodeValues : RemoveNode(node)
    \/ \E op \in ReadOps : Read(op)

Spec == Init /\ [][Next]_vars

\* ---------------------------------------------------- what the claims read
\* The node keys that own a binding of the Digest->Node Table.
PresentKeys(ring) ==
    { nodeToString(ring.nodesMap[j][2]) : j \in 1 .. Len(ring.nodesMap) }

\* The digests stored in the Position Index.
TreeDigests(ring) ==
    { getSortedDigests(ring.root)[j] : j \in 1 .. Len(getSortedDigests(ring.root)) }

\* getNode(k) on the ring of this instance.
Lookup(ring, k) == getNode(hashSeed, ring, k)

\* The last call was addNode/removeNode and has returned.
Called(op) == returned /\ lastCall.op = op

\* The argument of the last addNode/removeNode call.
LastNode == lastCall.nodes[1]

\* The last call moved a replica: a ledger entry with a rotation suffix that
\* the ledger did not hold when the call was made.
Relocated ==
    \E j \in 1 .. Len(virtualKeyMap) :
        /\ virtualKeyMap[j][2].rot # <<>>
        /\ \A i \in 1 .. Len(before.virtualKeyMap) :
              before.virtualKeyMap[i] # virtualKeyMap[j]

\* ------------------------------------------------------------------ claims

\* C1: minimal disruption on removal.  When removeNode(X) of a present node
\* X has returned, every key that getNode did not route to X before the call
\* is routed to the same node as before.
C1_MinimalDisruptionOnRemove ==
    (Called("removeNode") /\ nodeToString(LastNode) \in PresentKeys(before)) =>
        \A k \in LookupKeys :
            nodeToString(Lookup(before, k)) # nodeToString(LastNode)
                => Lookup(Ring, k) = Lookup(before, k)

\* C2: minimal disruption on addition.  When addNode(X) of a node X that was
\* not present has returned, every key whose getNode result changed is now
\* routed to X.
C2_MinimalDisruptionOnAdd ==
    (Called("addNode") /\ nodeToString(LastNode) \notin PresentKeys(before)) =>
        \A k \in LookupKeys :
            Lookup(Ring, k) # Lookup(before, k) => Lookup(Ring, k) = LastNode

\* C3 as stated: with at least 2 distinct physical nodes in the ring,
\* findAdjacentReplicas() is empty whenever a call has returned.
C3_NoAdjacency ==
    (returned /\ Cardinality(PresentKeys(Ring)) >= 2) =>
        findAdjacentReplicas(Ring) = <<>>

\* C3 as amended: with at least 2 distinct physical nodes in the ring, when a
\* call has returned findAdjacentReplicas() is empty, or the repair gave up:
\* for the first adjacent pair there is no ring index, other than the pair's
\* two, whose two circular neighbours are both owned by other nodes than the
\* pair's.
C3_NoAdjacencyUnlessGivenUp ==
    (returned /\ Cardinality(PresentKeys(Ring)) >= 2) =>
        \/ findAdjacentReplicas(Ring) = <<>>
        \/ findTargetIndex(getOrderedNodes(Ring),
                           findAdjacentReplicas(Ring)[1].indices[1],
                           findAdjacentReplicas(Ring)[1].indices[2]) = -1

\* A call has returned after its repair pass moved a replica, and the ring,
\* with at least 2 physical nodes, has no adjacent pair left.
C3_Witness ==
    /\ returned
    /\ lastCall.op \in {"addNode", "removeNode"}
    /\ Cardinality(PresentKeys(Ring)) >= 2
    /\ Relocated
    /\ findAdjacentReplicas(Ring) = <<>>

\* C4: every addNode and removeNode call terminates (returns to its caller),
\* whatever the digest function.
C4_EveryCallReturns == returned

\* C5: lock-step.  When a call has returned, the digests of the Position
\* Index, the keys of the Digest->Node Table and the keys of the Virtual-Key
\* Ledger are the same set.
C5_LockStep ==
    returned =>
        /\ TreeDigests(Ring) = mapKeys(nodesMap)
        /\ mapKeys(nodesMap) = mapKeys(virtualKeyMap)

\* C6: coverage.  When a call has returned, getNode(k) is absent exactly when
\* the Position Index is empty, and on a non-empty ring it is a node that
\* owns a binding.
C6_Coverage ==
    returned =>
        \A k \in LookupKeys :
            /\ (Lookup(Ring, k) = NoNode) <=> (root = Nil)
            /\ root # Nil =>
                  \E j \in 1 .. Len(nodesMap) : nodesMap[j][2] = Lookup(Ring, k)

\* The digest the ring's order gives a target: the least stored digest >=
\* target, the least stored digest when there is none.
SuccessorDigest(ring, target) ==
    LET ge == { d \in TreeDigests(ring) : d >= target }
        from == IF ge = {} THEN TreeDigests(ring) ELSE ge
    IN  CHOOSE d \in from : \A e \in from : d <= e

\* C7: successor lookup.  On a non-empty ring getNode(k) is what the
\* Digest->Node Table binds to the smallest stored digest >= hash(k), and to
\* the minimum stored digest when no stored digest is >= hash(k).
C7_SuccessorLookup ==
    root # Nil =>
        \A k \in LookupKeys :
            Lookup(Ring, k)
              = mapGet(nodesMap, SuccessorDigest(Ring, hashFn(hashSeed, k)), NoNode)

\* A ring of at least 5 positions after a call, with a key beyond the
\* maximum digest (the wrap) and a key strictly between two stored digests.
C7_Witness ==
    /\ returned
    /\ calls >= 1
    /\ Len(getSortedDigests(root)) >= 5
    /\ \E k \in LookupKeys :
          /\ \A d \in TreeDigests(Ring) : d < hashFn(hashSeed, k)
          /\ Lookup(Ring, k) # NoNode
    /\ \E k \in LookupKeys :
          /\ hashFn(hashSeed, k) \notin TreeDigests(Ring)
          /\ \E d \in TreeDigests(Ring) : d < hashFn(hashSeed, k)
          /\ \E d \in TreeDigests(Ring) : d > hashFn(hashSeed, k)
          /\ Lookup(Ring, k) # NoNode

\* C8: when a call has returned, getNodesCount() is the number of distinct
\* physical nodes (node keys) present.
C8_NodesCount ==
    returned =>
        IsCount(getNodesCount(Ring, replicas), Cardinality(PresentKeys(Ring)))

\* C9: when a call has returned, every node of getNodeDistribution() owns
\* exactly `replicas` positions.
C9_ReplicasPerNode ==
    returned =>
        \A j \in 1 .. Len(getNodeDistribution(Ring)) :
            Len(getNodeDistribution(Ring)[j][2]) = replicas

RECURSIVE addedKeys(_, _, _, _)
\* The virtual keys the last addNode call built, replica index i on, from
\* the ring as it was at iteration i.
addedKeys(ring, node, useSpreadHashing, i) ==
    IF i >= replicas THEN <<>>
    ELSE <<replicaKey(ring, replicas, node, useSpreadHashing, i)>> \o
         addedKeys(bindDigest(ring,
                       hashFn(hashSeed,
                              replicaKey(ring, replicas, node, useSpreadHashing, i)),
                       node,
                       replicaKey(ring, replicas, node, useSpreadHashing, i)),
                   node, useSpreadHashing, i + 1)

\* The replica that key made for node is still on the ring: the ledger holds
\* the key, with or without further rotation suffixes, bound to the node.
ReplicaKept(ring, key, node) ==
    \E j \in 1 .. Len(ring.virtualKeyMap) :
        LET now == ring.virtualKeyMap[j][2]
        IN  /\ now.node = key.node /\ now.idx = key.idx /\ now.spread = key.spread
            /\ Len(now.rot) >= Len(key.rot)
            /\ SubSeq(now.rot, 1, Len(key.rot)) = key.rot
            /\ mapGet(ring.nodesMap, ring.virtualKeyMap[j][1], NoNode) = node

\* C10: collision safety.  When addNode has returned and one of its virtual
\* keys hashed to a digest that was bound to a replica made from another
\* virtual key, that replica's binding has not been overwritten (it is kept at
\* its digest or, rotated, at a new one), and the colliding replica is on the
\* ring too or validateDistribution() reports an issue.
C10_CollisionSafety ==
    Called("addNode") =>
        \A i \in 1 .. replicas :
            LET key == addedKeys(before, LastNode, lastCall.useSpreadHashing, 0)[i]
                digest == hashFn(hashSeed, key)
            IN  (mapHas(before.nodesMap, digest) /\ ledgerGet(before, digest) # key) =>
                    /\ ReplicaKept(Ring, ledgerGet(before, digest),
                                   mapGet(before.nodesMap, digest, NoNode))
                    /\ \/ ReplicaKept(Ring, key, LastNode)
                       \/ ~validateDistribution(Ring, replicas).isValid

\* The digests the Digest->Node Table binds to nodes of the given node key.
OwnedDigests(ring, nodeStr) ==
    { ring.nodesMap[j][1] :
        j \in { i \in 1 .. Len(ring.nodesMap) :
                  nodeToString(ring.nodesMap[i][2]) = nodeStr } }

\* C11: when removeNode(X) has returned, nothing of X is left: no binding of
\* the Digest->Node Table has X's node key, no ledger entry is a virtual key
\* of X, and a digest X owned before the call is in the Position Index only
\* where another node's replica is bound to it now.
C11_RemovedNodeGone ==
    Called("removeNode") =>
        /\ nodeToString(LastNode) \notin PresentKeys(Ring)
        /\ \A j \in 1 .. Len(virtualKeyMap) :
              virtualKeyMap[j][2].node # nodeToString(LastNode)
        /\ \A d \in OwnedDigests(before, nodeToString(LastNode)) :
              d \in TreeDigests(Ring) => mapHas(nodesMap, d)

\* C12: removeNode(X) of a node X that owns no position is a no-op.  On the
\* ring with repair it returns and the Position Index, the Digest->Node
\* Table and the Virtual-Key Ledger are what they were, and so are every
\* getNode result and getNodesCount; on the sorted-array ring the array and
\* the Digest->Node Table are what they were.
C12_RemoveAbsentIsNoOp ==
    lastCall.op = "removeNode" =>
        /\ nodeToString(LastNode) \notin PresentKeys(before) =>
              /\ returned
              /\ root = before.root
              /\ nodesMap = before.nodesMap
              /\ virtualKeyMap = before.virtualKeyMap
              /\ \A k \in LookupKeys : Lookup(Ring, k) = Lookup(before, k)
              /\ getNodesCount(Ring, replicas) = getNodesCount(before, replicas)
        /\ nodeToString(LastNode) \notin PresentKeys(arrayBefore) =>
              arrayRing = arrayBefore

\* The number of ring positions getOrderedNodes() lists for a node key.
PositionsOf(ring, nodeStr) ==
    Len(SelectSeq(getOrderedNodes(ring),
                  LAMBDA e : nodeToString(e.node) = nodeStr))

\* C13: addNode(X) of a node X that is present with its `replicas` positions
\* returns and leaves X with 2 * replicas positions on the ring.
C13_ReAddDuplicates ==
    (lastCall.op = "addNode"
        /\ PositionsOf(before, nodeToString(LastNode)) = replicas) =>
            /\ returned
            /\ PositionsOf(Ring, nodeToString(LastNode)) = 2 * replicas

\* The node lists of at most 2 nodes a ring can be seeded with.
SeedLists ==
    { <<>> } \cup { <<n>> : n \in NodeValues }
             \cup { <<n, m>> : n \in NodeValues, m \in NodeValues }

\* new HashRing(nodes, replicas, hashFn, spreadHashing) on this instance's
\* replicas and digest function.
Constructed(nodes, spreadHashing) ==
    construct(hashSeed, replicas, EmptyRing, nodes, spreadHashing)

\* C14 as stated: a ring built by addNode(n1), ..., addNode(nk) on an empty
\* ring (addNode's one-argument form, useSpreadHashing = false) is the ring
\* the constructor builds from [n1, ..., nk], whatever the constructor's
\* spreadHashing option.
C14_ConstructorSeeding ==
    (lastCall.op = "addNode" /\ ~lastCall.useSpreadHashing) =>
        \A nodes \in SeedLists, spreadHashing \in BOOLEAN :
            before = Constructed(nodes, FALSE) =>
                Ring = Constructed(Append(nodes, LastNode), spreadHashing)

\* C14 as amended: a ring built by addNode(n1, s), ..., addNode(nk, s) on an
\* empty ring is the ring the constructor builds from [n1, ..., nk] with
\* spreadHashing = s.
C14_ConstructorSeedingWithFlag ==
    lastCall.op = "addNode" =>
        \A nodes \in SeedLists :
            before = Constructed(nodes, lastCall.useSpreadHashing) =>
                Ring = Constructed(Append(nodes, LastNode), lastCall.useSpreadHashing)

\* Two addNode calls with spread hashing on an empty ring have built the
\* non-empty ring the constructor builds from the two nodes.
C14_Witness ==
    /\ Called("addNode")
    /\ calls = 2
    /\ lastCall.useSpreadHashing
    /\ \E n \in NodeValues :
          /\ nodeToString(n) # nodeToString(LastNode)
          /\ before = Constructed(<<n>>, TRUE)
          /\ Ring = Constructed(<<n, LastNode>>, TRUE)
          /\ Ring # Constructed(<<n, LastNode>>, FALSE)

Bindings(ring) == { ring.nodesMap[j] : j \in 1 .. Len(ring.nodesMap) }

\* C16: determinism.  A second ring instance, constructed with the same
\* replicas and digest function from some node list, that holds the same
\* digest->node bindings as this ring returns the same node from getNode(k)
\* for every key k, whatever history produced this ring's bindings.
C16_Determinism ==
    returned =>
        \A nodes \in SeedLists, spreadHashing \in BOOLEAN :
            (/\ Constructed(nodes, spreadHashing).returned
             /\ Bindings(Constructed(nodes, spreadHashing)) = Bindings(Ring)) =>
                \A k \in LookupKeys :
                    Lookup(Ring, k) = Lookup(Constructed(nodes, spreadHashing), k)

\* The digest just before d on the ring that holds the digests S: the
\* greatest one below d, and the greatest of all when d is the least.
PredecessorDigest(S, d) ==
    IF \E x \in S : x < d
    THEN CHOOSE x \in S : x < d /\ \A y \in S : y < d => y <= x
    ELSE CHOOSE x \in S : \A y \in S : y <= x

\* ranges is one range per digest of `owned`, each ending at its digest and
\* starting at that digest's predecessor among the ring digests `onRing`.
RangesOfPositions(ranges, owned, onRing) ==
    /\ Len(ranges) = Cardinality(owned)
    /\ { ranges[j].end : j \in 1 .. Len(ranges) } = owned
    /\ \A j \in 1 .. Len(ranges) :
          /\ ranges[j].end \in onRing
          /\ ranges[j].start = PredecessorDigest(onRing, ranges[j].end)

\* C17: getRangesForNode(X) returns exactly one range per virtual position
\* owned by X (the digests bound to a node whose nodeKey is X's); each
\* range's end is that position's digest and its start is the digest just
\* before it in ring order, the maximum digest when end is the minimum.
\* Stated for the engine and for the plain tree ring.
C17_RangesForNode ==
    lastCall.op = "getRangesForNode" =>
        \A node \in NodeValues :
            /\ RangesOfPositions(getRangesForNode(Ring, node),
                                 OwnedDigests(Ring, nodeToString(node)),
                                 TreeDigests(Ring))
            /\ RangesOfPositions(treeGetRangesForNode(hashSeed, replicas, treeRing, node),
                                 OwnedDigests(treeRing, nodeToString(node)),
                                 { getSortedDigests(treeRing.root)[j] :
                                     j \in 1 .. Len(getSortedDigests(treeRing.root)) })

\* The ranges getRangesForNode returns for the nodes the Digest->Node Table
\* binds, each with the node key it was obtained for.
AllRanges(ring) ==
    UNION { { [for |-> nodeToString(ring.nodesMap[i][2]),
               range |-> getRangesForNode(ring, ring.nodesMap[i][2])[j]] :
                 j \in 1 .. Len(getRangesForNode(ring, ring.nodesMap[i][2])) } :
            i \in 1 .. Len(ring.nodesMap) }

\* x lies on the arc (start, end] of the ring, which is the whole ring when
\* start = end and wraps past the greatest digest when start > end.
InArc(range, x) ==
    IF range.start < range.end THEN range.start < x /\ x <= range.end
    ELSE x > range.start \/ x <= range.end

\* C18: range partition.  In every state of a ring that holds a position,
\* the ranges getRangesForNode returns over all present nodes end at exactly
\* the digests on the ring, every point of the digest space lies on exactly
\* one of their arcs (start, end] (no overlap, no gap), and getNodeForRange
\* returns for each range the node it was obtained for.
C18_RangePartition ==
    (returned /\ (root # Nil \/ nodesMap # <<>>)) =>
        /\ { r.range.end : r \in AllRanges(Ring) } = TreeDigests(Ring)
        /\ \A x \in Digests :
              Cardinality({ r \in AllRanges(Ring) : InArc(r.range, x) }) = 1
        /\ \A r \in AllRanges(Ring) :
              nodeToString(getNodeForRange(Ring, r.range)) = r.for

\* The node keys in an array of nodes.
KeysIn(nodes) == { nodeToString(nodes[j]) : j \in 1 .. Len(nodes) }

\* The node keys that own a digest d with start <= d <= end, or with
\* d >= start or d <= end when start > end.
OwnersInRange(ring, start, end) ==
    { nodeToString(ring.nodesMap[j][2]) :
        j \in { i \in 1 .. Len(ring.nodesMap) :
                  IF start > end
                  THEN ring.nodesMap[i][1] >= start \/ ring.nodesMap[i][1] <= end
                  ELSE ring.nodesMap[i][1] >= start /\ ring.nodesMap[i][1] <= end } }

NodesOf(entries) == [j \in 1 .. Len(entries) |-> entries[j][1]]

\* The indices at which an array of nodes holds a node of this key.
EntriesFor(nodes, key) ==
    { j \in 1 .. Len(nodes) : nodeToString(nodes[j]) = key }

\* The positions of getOrderedNodes() that belong to a node of this key.
PositionsUnder(ring, key) ==
    LET own == SelectSeq(getOrderedNodes(ring), LAMBDA e : nodeToString(e.node) = key)
    IN  [j \in 1 .. Len(own) |-> own[j].position]

\* C20: physical-node identity is nodeKey equality everywhere.  Whatever
\* node values have been passed to addNode, two distinct values of one
\* nodeKey included, getNodesInRange returns at most one entry per nodeKey,
\* and getNodeDistribution and validateDistribution().distributionBalance
\* hold exactly one entry for each present nodeKey, which lists (counts)
\* all the positions owned under that nodeKey.
C20_NodeKeyIdentity ==
    returned =>
        \A key \in PresentKeys(Ring) :
            /\ \A start \in Digests, end \in Digests :
                  Cardinality(EntriesFor(getNodesInRange(Ring, start, end), key)) <= 1
            /\ Cardinality(EntriesFor(NodesOf(getNodeDistribution(Ring)), key)) = 1
            /\ \A j \in EntriesFor(NodesOf(getNodeDistribution(Ring)), key) :
                  getNodeDistribution(Ring)[j][2] = PositionsUnder(Ring, key)
            /\ Cardinality(EntriesFor(
                    NodesOf(validateDistribution(Ring, replicas).distributionBalance),
                    key)) = 1
            /\ \A j \in EntriesFor(
                    NodesOf(validateDistribution(Ring, replicas).distributionBalance),
                    key) :
                  validateDistribution(Ring, replicas).distributionBalance[j][2] =
                      Len(PositionsUnder(Ring, key))

\* C21: validateDistribution().isValid is true if and only if
\* findAdjacentReplicas() is empty and every node of the distribution owns
\* exactly `replicas` positions; adjacentReplicas is the number of adjacent
\* pairs, and the issue list is non-empty exactly when isValid is false.
C21_ValidateDistribution ==
    lastCall.op = "validateDistribution" =>
        /\ validateDistribution(Ring, replicas).isValid <=>
              /\ findAdjacentReplicas(Ring) = <<>>
              /\ \A key \in PresentKeys(Ring) : Len(PositionsUnder(Ring, key)) = replicas
        /\ validateDistribution(Ring, replicas).adjacentReplicas = Len(findAdjacentReplicas(Ring))
        /\ validateDistribution(Ring, replicas).issues # <<>> <=>
              ~validateDistribution(Ring, replicas).isValid

\* The pairs (digests and indices) of circularly consecutive positions of
\* the ring order whose owners have the same node key.
AdjacentPairs(ring) ==
    LET o == getOrderedNodes(ring)
    IN  { [positions |-> <<o[i].position, o[(i % Len(o)) + 1].position>>,
           indices |-> <<i - 1, i % Len(o)>>] :
            i \in { k \in 1 .. Len(o) :
                      nodeToString(o[k].node) = nodeToString(o[(k % Len(o)) + 1].node) } }

\* C22: findAdjacentReplicas returns exactly one record for each ring index
\* i such that the owners of positions i and (i+1) mod n have equal nodeKey,
\* the wrap-around pair (n-1, 0) included, each record carrying those two
\* digests and indices; with fewer than 2 positions it returns the empty
\* list.
C22_FindAdjacentReplicas ==
    lastCall.op = "findAdjacentReplicas" =>
        IF Len(getOrderedNodes(Ring)) < 2
        THEN findAdjacentReplicas(Ring) = <<>>
        ELSE /\ { [positions |-> findAdjacentReplicas(Ring)[j].positions,
                   indices |-> findAdjacentReplicas(Ring)[j].indices] :
                      j \in 1 .. Len(findAdjacentReplicas(Ring)) } = AdjacentPairs(Ring)
             /\ Len(findAdjacentReplicas(Ring)) = Cardinality(AdjacentPairs(Ring))
             /\ \A j \in 1 .. Len(findAdjacentReplicas(Ring)) :
                   nodeToString(findAdjacentReplicas(Ring)[j].node) =
                       nodeToString(mapGet(nodesMap,
                           findAdjacentReplicas(Ring)[j].positions[1], NoNode))

\* findAdjacentReplicas has been called on a ring of three or more
\* positions and several nodes whose last and first positions belong to the
\* same node.
C22_Witness ==
    /\ lastCall.op = "findAdjacentReplicas"
    /\ Len(getOrderedNodes(Ring)) >= 3
    /\ Cardinality(PresentKeys(Ring)) >= 2
    /\ \E j \in 1 .. Len(findAdjacentReplicas(Ring)) :
          findAdjacentReplicas(Ring)[j].indices = <<Len(getOrderedNodes(Ring)) - 1, 0>>

\* C23: repair is idempotent and a no-op on a clean ring.  Whenever a call
\* has returned -- the ring has no adjacent pair, or the repair pass of the
\* call has finished, with or without residual adjacency -- a repair pass
\* run then changes none of the Position Index, the Digest->Node Table and
\* the Virtual-Key Ledger.
C23_RepairIdempotent ==
    returned => fixAdjacentReplicas(hashSeed, Ring) = Ring

\* addNode or removeNode has returned after its repair pass relocated a
\* replica and then stopped with adjacent replicas left on a ring of at
\* least 2 physical nodes.
C23_Witness ==
    /\ returned
    /\ lastCall.op \in {"addNode", "removeNode"}
    /\ Cardinality(PresentKeys(Ring)) >= 2
    /\ Relocated
    /\ findAdjacentReplicas(Ring) # <<>>

\* The ring that the last addNode or removeNode call handed to its repair
\* pass: the ring before the call with the node's replicas inserted, or
\* with the digests bound to the node removed.
BeforeRepair ==
    IF lastCall.op = "addNode"
    THEN addReplicas(hashSeed, replicas, before, LastNode, lastCall.useSpreadHashing, 0)
    ELSE dropAll(before,
                 [j \in 1 .. Len(SelectSeq(before.nodesMap,
                        LAMBDA e : nodeToString(e[2]) = nodeToString(LastNode))) |->
                     SelectSeq(before.nodesMap,
                        LAMBDA e : nodeToString(e[2]) = nodeToString(LastNode))[j][1]])

\* C24: with fewer than 2 distinct physical nodes (by nodeKey) the repair
\* pass does nothing.  After an addNode or removeNode call that leaves 0 or
\* 1 physical node in the ring, the ring is the one the call handed to its
\* repair pass: no replica is relocated and no virtual key gets a rotation
\* suffix, even though a single node with replicas >= 2 is adjacent to
\* itself.
C24_RepairNeedsTwoNodes ==
    (lastCall.op \in {"addNode", "removeNode"} /\ Cardinality(PresentKeys(Ring)) < 2) =>
        /\ returned
        /\ Ring = BeforeRepair
        /\ ~Relocated

\* addNode of the first node has returned on a ring with replicas >= 2,
\* whose positions are all adjacent replicas of that node.
C24_Witness ==
    /\ Called("addNode")
    /\ before.nodesMap = <<>>
    /\ replicas >= 2
    /\ Len(findAdjacentReplicas(Ring)) >= 2
    /\ \A j \in 1 .. Len(virtualKeyMap) : virtualKeyMap[j][2].rot = <<>>

\* The replica that an iteration of the repair loop on this ring relocates:
\* the second position of the first adjacent pair.
SecondOfFirstPair(ring) ==
    At0(getOrderedNodes(ring), findAdjacentReplicas(ring)[1].indices[2])

\* The replica the same iteration leaves where it is: the pair's first.
FirstOfFirstPair(ring) ==
    At0(getOrderedNodes(ring), findAdjacentReplicas(ring)[1].indices[1])

\* The rotation attempt the iteration's do-while ends with, 0 if it never
\* ends.
AttemptOf(seed, ring) ==
    LET second == SecondOfFirstPair(ring)
    IN  rotationAttemptFor(seed, dropDigest(ring, second.position), second.node,
                           ledgerGet(ring, second.position))

\* An iteration of the repair loop on this ring relocates a replica: there
\* is an adjacent pair, a target index, and the rotation search ends.
Relocates(seed, ring) ==
    LET pairs == findAdjacentReplicas(ring)
    IN  /\ pairs # <<>>
        /\ findTargetIndex(getOrderedNodes(ring),
                           pairs[1].indices[1], pairs[1].indices[2]) # -1
        /\ AttemptOf(seed, ring) # 0

\* The ring at the end of that iteration.
RelocationOf(seed, ring) ==
    LET second == SecondOfFirstPair(ring)
        rotated == rotateKey(ledgerGet(ring, second.position), AttemptOf(seed, ring))
    IN  bindDigest(dropDigest(ring, second.position),
                   hashFn(seed, rotated), second.node, rotated)

RECURSIVE RepairHeads(_, _, _)
\* The rings at the head of the relocating iterations of a repair loop
\* entered with this ring; seen as in repairLoop.
RepairHeads(seed, ring, seen) ==
    IF ~Relocates(seed, ring) \/ <<ring.root, ring.nodesMap>> \in seen THEN {}
    ELSE { ring } \cup RepairHeads(seed, RelocationOf(seed, ring),
                                   seen \cup { <<ring.root, ring.nodesMap>> })

\* The rings at the head of the relocating iterations of the last call's
\* repair pass.
LastRepairHeads ==
    IF lastCall.op \in {"addNode", "removeNode"} /\ getUniqueNodeCount(BeforeRepair) >= 2
    THEN RepairHeads(hashSeed, BeforeRepair, {})
    ELSE {}

\* The <<digest, virtual key>> entries of a ring's ledger.
LedgerEntries(ring) == { ring.virtualKeyMap[j] : j \in 1 .. Len(ring.virtualKeyMap) }

\* C25: each repair iteration relocates only the second replica of the
\* first adjacent pair found.  That replica's old digest is removed from the
\* tree, nodesMap and virtualKeyMap, and one new digest, bound to the same
\* physical node, is inserted in all three; every other digest->node
\* binding and virtual key, the pair's first replica included, is
\* unchanged, and the number of positions per node is preserved.
C25_RelocatesSecondOnly ==
    \A h \in LastRepairHeads :
        /\ SecondOfFirstPair(h).position \notin TreeDigests(RelocationOf(hashSeed, h))
        /\ ~mapHas(RelocationOf(hashSeed, h).nodesMap, SecondOfFirstPair(h).position)
        /\ ~mapHas(RelocationOf(hashSeed, h).virtualKeyMap, SecondOfFirstPair(h).position)
        /\ Bindings(h) \ Bindings(RelocationOf(hashSeed, h)) =
              { <<SecondOfFirstPair(h).position, SecondOfFirstPair(h).node>> }
        /\ \E d \in Digests :
              /\ Bindings(RelocationOf(hashSeed, h)) \ Bindings(h) =
                    { <<d, SecondOfFirstPair(h).node>> }
              /\ d \in TreeDigests(RelocationOf(hashSeed, h))
              /\ mapHas(RelocationOf(hashSeed, h).virtualKeyMap, d)
              /\ LedgerEntries(RelocationOf(hashSeed, h)) \ LedgerEntries(h) =
                    { <<d, ledgerGet(RelocationOf(hashSeed, h), d)>> }
        /\ Cardinality(LedgerEntries(h) \ LedgerEntries(RelocationOf(hashSeed, h))) = 1
        /\ <<FirstOfFirstPair(h).position, FirstOfFirstPair(h).node>>
              \in Bindings(RelocationOf(hashSeed, h))
        /\ \A key \in PresentKeys(h) :
              PositionsOf(RelocationOf(hashSeed, h), key) = PositionsOf(h, key)

\* The digest at which the iteration on this ring re-inserts the replica.
NewDigestOf(seed, ring) ==
    hashFn(seed, rotateKey(ledgerGet(ring, SecondOfFirstPair(ring).position),
                           AttemptOf(seed, ring)))

\* In the ring order of `ring`, no position at digest d has a circular
\* predecessor or successor owned by a node of this key.
NoNeighbourOf(ring, d, key) ==
    \A i \in 1 .. Len(getOrderedNodes(ring)) :
        getOrderedNodes(ring)[i].position = d =>
            /\ nodeToString(getOrderedNodes(ring)[
                   ((i - 2 + Len(getOrderedNodes(ring))) % Len(getOrderedNodes(ring))) + 1
               ].node) # key
            /\ nodeToString(getOrderedNodes(ring)[
                   (i % Len(getOrderedNodes(ring))) + 1].node) # key

\* C26: safe placement.  The digest at which a repair iteration re-inserts
\* the relocated replica was not bound to any replica at the moment of the
\* insertion, and immediately after the insertion neither the circular
\* predecessor nor the circular successor of the new position is owned by
\* the relocated replica's physical node.
C26_SafePlacement ==
    \A h \in LastRepairHeads :
        /\ ~mapHas(dropDigest(h, SecondOfFirstPair(h).position).nodesMap,
                   NewDigestOf(hashSeed, h))
        /\ NoNeighbourOf(RelocationOf(hashSeed, h), NewDigestOf(hashSeed, h),
                         nodeToString(SecondOfFirstPair(h).node))

\* The rings the last call's repair loop evaluates its condition on: the
\* one the pass is entered with and the one at the end of each relocating
\* iteration.
LastRepairRings ==
    IF lastCall.op \in {"addNode", "removeNode"} /\ getUniqueNodeCount(BeforeRepair) >= 2
    THEN { BeforeRepair } \cup { RelocationOf(hashSeed, h) : h \in LastRepairHeads }
    ELSE {}

\* The ring has an adjacent pair, and no ring index other than the first
\* pair's two has both its circular predecessor and its circular successor
\* owned by nodes other than the second replica's.
NoPlaceForSecond(ring) ==
    LET o == getOrderedNodes(ring)
        pairs == findAdjacentReplicas(ring)
    IN  /\ pairs # <<>>
        /\ ~\E i \in 1 .. Len(o) :
              /\ i - 1 # pairs[1].indices[1]
              /\ i - 1 # pairs[1].indices[2]
              /\ nodeToString(o[((i - 2 + Len(o)) % Len(o)) + 1].node)
                    # nodeToString(At0(o, pairs[1].indices[2]).node)
              /\ nodeToString(o[(i % Len(o)) + 1].node)
                    # nodeToString(At0(o, pairs[1].indices[2]).node)

\* C27: repair gives up without side effects.  When the repair loop of the
\* last call comes to a ring whose first adjacent pair has no place for its
\* second replica, the loop stops there: the call returns with exactly that
\* ring, so nothing is changed in that iteration, and that pair and every
\* later adjacent pair are left in place.
C27_GivesUpWithoutSideEffects ==
    \A g \in LastRepairRings :
        NoPlaceForSecond(g) =>
            /\ returned
            /\ Ring = g
            /\ findAdjacentReplicas(Ring) = findAdjacentReplicas(g)

\* addNode or removeNode has returned from a repair pass that gave up on a
\* ring of at least 2 physical nodes, leaving two or more adjacent pairs.
C27_Witness ==
    /\ returned
    /\ lastCall.op \in {"addNode", "removeNode"}
    /\ getUniqueNodeCount(BeforeRepair) >= 2
    /\ NoPlaceForSecond(Ring)
    /\ Len(findAdjacentReplicas(Ring)) >= 2

\* C28: no duplicate positions.  After any sequence of addNode/removeNode
\* calls the in-order traversal of the Position Index is strictly
\* ascending: no digest is stored in the tree more than once, also after a
\* hash collision between two virtual keys or after adding a node that is
\* already present.
C28_NoDuplicatePositions ==
    returned =>
        \A i \in 1 .. Len(getSortedDigests(root)) - 1 :
            getSortedDigests(root)[i] < getSortedDigests(root)[i + 1]

\* The digest the comparator puts first among those of S.
FirstBySortFn(S) == CHOOSE d \in S : \A e \in S : sortFn(d, e) <= 0

\* The owner of the first digest of the ring array that is >= the key's
\* digest under the comparator, wrapping to the first one.
OwnerBySortFn(seed, a, key) ==
    IF a.ring = <<>> THEN NoNode
    ELSE mapGet(a.nodesMap,
                IF \E j \in 1 .. Len(a.ring) : sortFn(a.ring[j], hashFn(seed, key)) >= 0
                THEN FirstBySortFn({ a.ring[j] : j \in { i \in 1 .. Len(a.ring) :
                                        sortFn(a.ring[i], hashFn(seed, key)) >= 0 } })
                ELSE FirstBySortFn({ a.ring[j] : j \in 1 .. Len(a.ring) }),
                NoNode)

\* C29: sorted-array variant with a comparator.  When a digest comparator is
\* supplied, after every addNode the ring array is ordered by that
\* comparator, and getNode(k) returns the owner of the first digest >=
\* hash(k) under that comparator, wrapping to the first element.
C29_SortedArrayWithComparator ==
    lastCall.op = "addNode" =>
        /\ \A j \in 1 .. Len(sortedRing.ring) - 1 :
              sortFn(sortedRing.ring[j], sortedRing.ring[j + 1]) <= 0
        /\ \A k \in LookupKeys :
              sortedGetNode(hashSeed, sortedRing, k) = OwnerBySortFn(hashSeed, sortedRing, k)

\* C30: variant equivalence.  Given the same replicas and digest function,
\* after every sequence of addNode/removeNode calls the sorted-array ring
\* and the binary-search-tree ring without repair return the same
\* getNode(k) for every key k and the same getNodesCount().
C30_VariantEquivalence ==
    /\ \A k \in LookupKeys :
          arrayGetNode(hashSeed, arrayRing, k) = treeGetNode(hashSeed, treeRing, k)
    /\ arrayGetNodesCount(arrayRing, replicas) = treeGetNodesCount(treeRing, replicas)

\* The ring inside a relocating repair iteration entered with this ring,
\* after the insertNode of the new digest and before nodesMap.set.
ReinsertedNotBound(seed, ring) ==
    LET removed == dropDigest(ring, SecondOfFirstPair(ring).position)
    IN  [removed EXCEPT !.root = insertNode(@, NewDigestOf(seed, ring))]

\* The digests of the Position Index that the Digest->Node Table does not
\* bind.
UnboundDigests(ring) == TreeDigests(ring) \ mapKeys(ring.nodesMap)

\* getNode returns undefined for some key although the tree is not empty.
AbsentOnNonEmpty(ring) ==
    /\ ring.root # Nil
    /\ \E k \in LookupKeys : Lookup(ring, k) = NoNode

\* The last call was an addNode on a ring without unbound digests, and
\* inside one of its loop iterations, between insertNode and nodesMap.set,
\* the new digest is in the tree only and getNode returns undefined for
\* some key.
MidAddNodeExposed ==
    /\ lastCall.op = "addNode"
    /\ UnboundDigests(before) = {}
    /\ \E i \in 0 .. replicas - 1 :
          LET mid == InsertedNotBound(hashSeed, replicas, before, LastNode,
                                      lastCall.useSpreadHashing, i)
          IN  /\ UnboundDigests(mid) # {}
              /\ AbsentOnNonEmpty(mid)

\* The last call's repair pass relocated a replica on a ring without
\* unbound digests, and between the insertNode of the new digest and
\* nodesMap.set that digest is in the tree only and getNode returns
\* undefined for some key.
MidRelocationExposed ==
    \E h \in LastRepairHeads :
        /\ UnboundDigests(h) = {}
        /\ UnboundDigests(ReinsertedNotBound(hashSeed, h)) # {}
        /\ AbsentOnNonEmpty(ReinsertedNotBound(hashSeed, h))

\* C31: mutations are not safe to interleave with reads, and only inside a
\* mutation.  Inside addNode and inside a repair relocation a digest is in
\* the Position Index before the Digest->Node Table binds it
\* (MidAddNodeExposed, MidRelocationExposed), but when an addNode or
\* removeNode call has returned no digest of the Position Index is unbound,
\* so that getNode returns a node for every key on a non-empty ring.
C31_NoUnboundDigestAtCallBoundaries ==
    (returned /\ lastCall.op \in {"addNode", "removeNode"}) =>
        /\ UnboundDigests(Ring) = {}
        /\ ~AbsentOnNonEmpty(Ring)

\* C32: progress of repair.  Every iteration of the last call's repair loop
\* that relocates a replica ends with fewer adjacent pairs, as
\* findAdjacentReplicas reports them, than it began with, and the pass
\* relocates at most as many replicas as there were adjacent pairs when it
\* started.
C32_RepairProgress ==
    lastCall.op \in {"addNode", "removeNode"} =>
        /\ \A h \in LastRepairHeads :
              Len(findAdjacentReplicas(RelocationOf(hashSeed, h)))
                  < Len(findAdjacentReplicas(h))
        /\ Cardinality(LastRepairHeads) <= Len(findAdjacentReplicas(BeforeRepair))

\* The virtual keys addNode can build for a node of this key: replica index
\* i below replicas, without spread part or with a spread factor
\* floor(i / max(1, getNodesCount())) + 1, which lies in 1 .. i + 1.
AddNodeKeys(nodeStr) ==
    { key \in { virtualNodeKey(nodeStr, i, f) : i \in 0 .. replicas - 1,
                                                f \in 0 .. replicas } :
        key.spread <= key.idx + 1 }

RECURSIVE WithRotations(_, _)
\* The key with the suffixes `_rotate<a>` of the attempts in rot appended,
\* left to right.
WithRotations(key, rot) ==
    IF rot = <<>> THEN key
    ELSE WithRotations(rotateKey(key, Head(rot)), Tail(rot))

\* C33: ledger consistency.  When a call has returned, every digest d of the
\* Virtual-Key Ledger is the digest of the key stored under it, d is bound
\* in the Digest->Node Table, and the key is a virtual key that addNode
\* builds for the node bound to d followed by zero or more `_rotate<attempt>`
\* suffixes with attempt >= 1.
C33_LedgerConsistency ==
    returned =>
        \A j \in 1 .. Len(virtualKeyMap) :
            LET d == virtualKeyMap[j][1]
                key == virtualKeyMap[j][2]
            IN  /\ hashFn(hashSeed, key) = d
                /\ mapHas(nodesMap, d)
                /\ \E base \in AddNodeKeys(nodeToString(mapGet(nodesMap, d, NoNode))) :
                      key = WithRotations(base, key.rot)
                /\ \A a \in 1 .. Len(key.rot) : key.rot[a] >= 1

\* A call has returned with a ledger that holds a key with two rotation
\* suffixes and a key with a spread part, on a ring whose tree holds a
\* digest twice (two virtual keys with one digest).
C33_Witness ==
    /\ returned
    /\ lastCall.op \in {"addNode", "removeNode"}
    /\ \E j \in 1 .. Len(virtualKeyMap) : Len(virtualKeyMap[j][2].rot) >= 2
    /\ \E j \in 1 .. Len(virtualKeyMap) : virtualKeyMap[j][2].spread >= 1
    /\ Len(getSortedDigests(root)) > Cardinality(TreeDigests(Ring))

\* The ring after addNode(node, useSpreadHashing) followed directly by
\* removeNode(node), both on this instance; not returned when one of the
\* two calls does not return.
AddThenRemove(ring, node, useSpreadHashing) ==
    LET added == addNode(hashSeed, replicas, ring, node, useSpreadHashing)
    IN  IF added.returned THEN removeNode(hashSeed, added, node) ELSE added

\* C34: add/remove round trip.  In every ring state left by a call that has
\* returned, for every node X that is not present (by nodeKey), when
\* addNode(X) returns, the removeNode(X) that follows it returns, and
\* getNode(k) is then the same as before the addNode for every key k.
C34_AddRemoveRoundTrip ==
    returned =>
        \A node \in NodeValues, useSpreadHashing \in BOOLEAN :
            (/\ nodeToString(node) \notin PresentKeys(Ring)
             /\ addNode(hashSeed, replicas, Ring, node, useSpreadHashing).returned) =>
                /\ AddThenRemove(Ring, node, useSpreadHashing).returned
                /\ \A k \in LookupKeys :
                      Lookup(AddThenRemove(Ring, node, useSpreadHashing), k)
                          = Lookup(Ring, k)

====
